---- MODULE Spec2Model ----
(***************************************************************************)
(* Planar quadrotor dynamics of 2-Planar-Quadrotor.ipynb.                  *)
(*                                                                         *)
(* Real quantities are fixed-point integers: a value v stands for          *)
(* v / Scale (1e-7 of the SI unit).  Products and quotients are rounded to *)
(* the nearest unit, half away from zero, so that f(-x) = -f(x) as in      *)
(* IEEE arithmetic.  Rotor rates are real values carried in micro rad/s.   *)
(***************************************************************************)
EXTENDS Integers, Sequences, FiniteSets, TLC

VARIABLES state, ret, y0, span, evals, cmds, hist, fin, fout

vars == <<state, ret, y0, span, evals, cmds, hist, fin, fout>>

----------------------------------------------------------------------------
(* Fixed-point arithmetic.                                                 *)

Scale == 10 ^ 7

RateScale == 10 ^ 6

Abs(x) == IF x < 0 THEN -x ELSE x

Sgn(x) == IF x < 0 THEN -1 ELSE IF x > 0 THEN 1 ELSE 0

\* Base-1000 limbs of a >= 0 (a < 2^31 has three) and the limb products
\* of a * b = P[5] 10^12 + P[4] 10^9 + P[3] 10^6 + P[2] 10^3 + P[1]; no
\* product leaves 32 bits.
Limbs(a) == << a % 1000, (a \div 1000) % 1000, a \div 1000000 >>

LimbMul(x, y) ==
    << x[1] * y[1],
       x[2] * y[1] + x[1] * y[2],
       x[3] * y[1] + x[2] * y[2] + x[1] * y[3],
       x[3] * y[2] + x[2] * y[3],
       x[3] * y[3] >>

LimbProduct(a, b) == LimbMul(Limbs(a), Limbs(b))

\* The part of a * b below 10^6, carried into the 10^6 limb.
Carry6(P) == P[3] + (P[2] + P[1] \div 1000) \div 1000

\* m / d for m >= 0, d > 0, rounded to nearest (half up).
RoundDiv(m, d) == m \div d + (IF 2 * (m % d) >= d THEN 1 ELSE 0)

\* A limb product divided by 10^7 and by 10^9, rounded to nearest.
ScaleE7(P) == P[5] * 100000 + P[4] * 100 + RoundDiv(Carry6(P), 10)

ScaleE9(P) == P[5] * 1000 + P[4] + RoundDiv(Carry6(P), 1000)

UMulE7(a, b) == ScaleE7(LimbProduct(a, b))

UMulE9(a, b) == ScaleE9(LimbProduct(a, b))

\* Fixed-point product a * b / Scale.
Mul(a, b) ==
    IF a = 0 \/ b = 0 THEN 0 ELSE Sgn(a) * Sgn(b) * UMulE7(Abs(a), Abs(b))

\* a * b / 10^9 (products of quantities kept at finer scales).
MulE9(a, b) ==
    IF a = 0 \/ b = 0 THEN 0 ELSE Sgn(a) * Sgn(b) * UMulE9(Abs(a), Abs(b))

\* One decimal digit of a long division by b: <<quotient, remainder>>.
DivDigit(qr, b) == << qr[1] * 10 + (qr[2] * 10) \div b, (qr[2] * 10) % b >>

\* <<quotient, remainder>> to the nearest quotient (half up).
RoundQuot(qr, b) == qr[1] + (IF 2 * qr[2] >= b THEN 1 ELSE 0)

\* |a| * 10^7 / b for 0 < b < 2 * 10^8, rounded to nearest.
UDivE7(a, b) ==
    RoundQuot(DivDigit(DivDigit(DivDigit(DivDigit(DivDigit(DivDigit(
                  DivDigit(<< a \div b, a % b >>, b), b), b), b), b), b), b),
              b)

\* Fixed-point quotient a * Scale / b.
Div(a, b) ==
    IF a = 0 THEN 0 ELSE Sgn(a) * Sgn(b) * UDivE7(Abs(a), Abs(b))

\* a * n / d for a >= 0 and a rational n / d with 0 <= n, n * d < 2^30.
URatio(a, n, d) == (a \div d) * n + RoundDiv((a % d) * n, d)

\* v * n / d for a rational coefficient n / d.
Ratio(v, n, d) ==
    IF v = 0 THEN 0 ELSE Sgn(v) * Sgn(n) * URatio(Abs(v), Abs(n), d)

\* Square root of a fixed-point value in [0, Scale] (Newton, from above).
RECURSIVE SqrtFrom(_, _)
SqrtNext(x, r, n) == IF n >= r THEN r ELSE SqrtFrom(x, n)

SqrtFrom(x, r) == SqrtNext(x, r, (r + Div(x, r)) \div 2)

Sqrt(x) == IF x <= 0 THEN 0 ELSE SqrtFrom(x, Scale)

\* A function on 1..n as an explicit sequence value (a numpy array).
Array(f) == f \o << >>

Clamp(x, lo, hi) == IF x < lo THEN lo ELSE IF x > hi THEN hi ELSE x

----------------------------------------------------------------------------
(* Params (the module-level global p = Params()).                          *)

mass == 13520000                    \* 1.352 kg

inertia == 980000                   \* 9.8e-2 kg m2

rotor_diameter == 10 * 254000       \* 10 * 0.0254 m

static_thrust_coefficient == 1455300    \* 0.14553

static_torque_coefficient == 104700     \* 0.01047

arm_length == 3814000 \div 2        \* 0.3814 / 2.0 m

g == 98066500                       \* 9.80665 m/s2

rho == 12250000                     \* 1.225 kg/m3

Pi == 31415927                      \* np.pi

\* rho * static_coefficient * rotor_diameter ** 4 / (4 * pi ** 2), in units
\* of 1e-13: the intermediate products are kept at 1e-8 (rho c), 1e-11
\* (d^4), 1e-12 (numerator) and 1e-6 (4 pi^2), so that the coefficient
\* (about 1.9e-5) keeps nine digits.
rotor_model(static_coefficient) ==
    LET rc == MulE9(rho, static_coefficient * 1000)
        d2 == Mul(rotor_diameter, rotor_diameter)
        d4 == MulE9(d2 * 1000, d2 * 1000)
        nu == Mul(rc, d4)
        de == Ratio(4 * Mul(Pi, Pi), 1, 10)
    IN  Div(nu, de)

k_thrust == rotor_model(static_thrust_coefficient)

k_torque == rotor_model(static_torque_coefficient)

----------------------------------------------------------------------------
(* PlanarQuadrotorDynamics.                                                *)

\* Fault: a signed thrust k_thrust * rate * |rate| (a reversed rotor pushes
\* down).
rotor_thrust_signed(rate) ==
    MulE9(k_thrust, MulE9(rate, Abs(rate)))

\* k_thrust * rate ** 2 for one rotor rate (micro rad/s): the square is
\* taken first (kept at 1e-3), then scaled by the coefficient.
rotor_thrust(rate) ==
    MulE9(k_thrust, MulE9(rate, rate))

\* The array form: one thrust per entry of rotor_rates.
rotor_thrust_model(rotor_rates) ==
    Array([i \in 1..Len(rotor_rates) |-> rotor_thrust(rotor_rates[i])])

\* Pitch of the body, phi = to_yaw_pitch_roll()[1] = -asin(2 x z - 2 y w)
\* with the argument clamped to [-1, 1]; the model carries its sine and
\* cosine (phi lies in [-pi/2, pi/2], so the cosine is never negative).
sin_phi(orientation) ==
    -Clamp(2 * (Mul(orientation[1], orientation[3])
                - Mul(orientation[2], orientation[4])), -Scale, Scale)

cos_phi(orientation) ==
    Sqrt(Scale - Mul(sin_phi(orientation), sin_phi(orientation)))

\* Fault: a sign error in the last row of G.
dRot3_sign(R, omega) ==
    LET q0 == R[1]
        q1 == R[2]
        q2 == R[3]
        q3 == R[4]
        G  == << << q3,  q2, -q1, -q0>>,
                 <<-q2,  q3,  q0, -q1>>,
                 << q1,  q0,  q3, -q2>> >>
    IN  Array([i \in 1..4 |->
            Ratio(Mul(G[1][i], omega[1]) + Mul(G[2][i], omega[2])
                  + Mul(G[3][i], omega[3]), 1, 2)])

\* Quaternion rate (G^T omega) / 2 for the quaternion R = (q0, q1, q2, q3)
\* in x, y, z, w storage order.
dRot3(R, omega) ==
    LET q0 == R[1]
        q1 == R[2]
        q2 == R[3]
        q3 == R[4]
        G  == << << q3,  q2, -q1, -q0>>,
                 <<-q2,  q3,  q0, -q1>>,
                 << q1, -q0,  q3, -q2>> >>
    IN  Array([i \in 1..4 |->
            Ratio(Mul(G[1][i], omega[1]) + Mul(G[2][i], omega[2])
                  + Mul(G[3][i], omega[3]), 1, 2)])

\* QuadrotorState <-> flat vector: position, velocity, orientation
\* (x, y, z, w), angular velocity.
to_state_vector(s) ==
    s.position \o s.velocity \o s.orientation \o s.angular_velocity

from_state_vector(v) ==
    [position         |-> SubSeq(v, 1, 3),
     velocity         |-> SubSeq(v, 4, 6),
     orientation      |-> SubSeq(v, 7, 10),
     angular_velocity |-> SubSeq(v, 11, 13)]

\* Fault: gravity added instead of subtracted.
state_derivative_g_up(s, u1, u2) ==
    LET accel == << -Div(Mul(sin_phi(s.orientation), u1), mass),
                    0,
                    Div(Mul(cos_phi(s.orientation), u1), mass) + g >>
        angular_accel == << 0, Div(u2, inertia), 0 >>
    IN  [position         |-> s.velocity,
         velocity         |-> accel,
         orientation      |-> dRot3(s.orientation, s.angular_velocity),
         angular_velocity |-> angular_accel]

\* Fault: the velocity handed to dRot3 in place of the angular velocity.
state_derivative_wrong_field(s, u1, u2) ==
    LET accel == << -Div(Mul(sin_phi(s.orientation), u1), mass),
                    0,
                    Div(Mul(cos_phi(s.orientation), u1), mass) - g >>
        angular_accel == << 0, Div(u2, inertia), 0 >>
    IN  [position         |-> s.velocity,
         velocity         |-> accel,
         orientation      |-> dRot3(s.orientation, s.velocity),
         angular_velocity |-> angular_accel]

\* Fault: sine and cosine of the pitch exchanged.
state_derivative_swapped(s, u1, u2) ==
    LET accel == << -Div(Mul(cos_phi(s.orientation), u1), mass),
                    0,
                    Div(Mul(sin_phi(s.orientation), u1), mass) - g >>
        angular_accel == << 0, Div(u2, inertia), 0 >>
    IN  [position         |-> s.velocity,
         velocity         |-> accel,
         orientation      |-> dRot3(s.orientation, s.angular_velocity),
         angular_velocity |-> angular_accel]

\* Fault: the torque applied about every body axis.
state_derivative_all_axes(s, u1, u2) ==
    LET accel == << -Div(Mul(sin_phi(s.orientation), u1), mass),
                    0,
                    Div(Mul(cos_phi(s.orientation), u1), mass) - g >>
        angular_accel == << Div(u2, inertia), Div(u2, inertia), Div(u2, inertia) >>
    IN  [position         |-> s.velocity,
         velocity         |-> accel,
         orientation      |-> dRot3(s.orientation, s.angular_velocity),
         angular_velocity |-> angular_accel]

state_derivative(s, u1, u2) ==
    LET accel == << -Div(Mul(sin_phi(s.orientation), u1), mass),
                    0,
                    Div(Mul(cos_phi(s.orientation), u1), mass) - g >>
        angular_accel == << 0, Div(u2, inertia), 0 >>
    IN  [position         |-> s.velocity,
         velocity         |-> accel,
         orientation      |-> dRot3(s.orientation, s.angular_velocity),
         angular_velocity |-> angular_accel]

\* The local wrapper handed to the solver: state vector in, derivative
\* vector out, with u1 and u2 captured from the enclosing call of step.
fun(t, y, u1, u2) ==
    to_state_vector(state_derivative(from_state_vector(y), u1, u2))

----------------------------------------------------------------------------
(* scipy.integrate.solve_ivp(method='RK45'): Dormand-Prince steps.         *)

VAdd(a, b) == Array([i \in 1..Len(a) |-> a[i] + b[i]])

VMul(h, v) == Array([i \in 1..Len(v) |-> Mul(h, v[i])])

VRat(v, n, d) == Array([i \in 1..Len(v) |-> Ratio(v[i], n, d)])

\* The coefficients of the method, as rationals <<n, d>>: stage times,
\* stage weights and the weights of the solution.
C == << <<0, 1>>, <<1, 5>>, <<3, 10>>, <<4, 5>>, <<8, 9>>, <<1, 1>> >>

A == << << >>,
        << <<1, 5>> >>,
        << <<3, 40>>, <<9, 40>> >>,
        << <<44, 45>>, <<-56, 15>>, <<32, 9>> >>,
        << <<19372, 6561>>, <<-25360, 2187>>, <<64448, 6561>>,
           <<-212, 729>> >>,
        << <<9017, 3168>>, <<-355, 33>>, <<46732, 5247>>, <<49, 176>>,
           <<-5103, 18656>> >> >>

B == << <<35, 384>>, <<0, 1>>, <<500, 1113>>, <<125, 192>>,
        <<-2187, 6784>>, <<11, 84>> >>

\* y + K[1] a[1] + ... + K[s] a[s]; the rows of K carry the step size.
RECURSIVE Dot(_, _, _, _)
Dot(y, K, a, s) ==
    IF s = 0 THEN y
    ELSE VAdd(Dot(y, K, a, s - 1), VRat(K[s], a[s][1], a[s][2]))

\* One call of fun by the solver: the derivative and the arguments the
\* call was made with.
Call(t, y, u1, u2) == [f |-> fun(t, y, u1, u2), t |-> t, u1 |-> u1, u2 |-> u2]

\* Fault: the thrust ramped up over the stages of a step instead of held.
StageCall_ramp(K, s, t, y, h, u1, u2) ==
    Call(t + Ratio(h, C[s][1], C[s][2]), Dot(y, K, A[s], s - 1),
         Ratio(u1, C[s][1], C[s][2]), u2)

StageCall(K, s, t, y, h, u1, u2) ==
    Call(t + Ratio(h, C[s][1], C[s][2]), Dot(y, K, A[s], s - 1), u1, u2)

\* The stages of one step of size h from (t, y): K[s] = h fun(t + C[s] h,
\* y + K[:s] . A[s]), and the calls of fun in the order they were made.
RECURSIVE rk_stages(_, _, _, _, _, _, _)
rk_stage(K, calls, c, t, y, h, u1, u2) ==
    rk_stages(Append(K, VMul(h, c.f)),
              Append(calls, [t |-> c.t, u1 |-> c.u1, u2 |-> c.u2]),
              t, y, h, u1, u2)

rk_stages(K, calls, t, y, h, u1, u2) ==
    IF Len(K) = Len(C) THEN [K |-> K, calls |-> calls]
    ELSE rk_stage(K, calls, StageCall(K, Len(K) + 1, t, y, h, u1, u2),
                  t, y, h, u1, u2)

rk_new(y, stages) == [y |-> Dot(y, stages.K, B, Len(B)), evals |-> stages.calls]

\* One explicit Runge-Kutta step: the new y and the calls of fun.
rk_step(t, y, h, u1, u2) ==
    rk_new(y, rk_stages(<< >>, << >>, t, y, h, u1, u2))

\* The number of internal steps the solver takes over t_span (the adaptive
\* step-size control of RK45 is not modelled).
SolverSteps == 2

\* Integration from t to t_bound in n equal internal steps; calls
\* accumulates the calls of fun.  Each internal step is completed before
\* the next one begins.
RECURSIVE Advance(_, _, _, _, _, _, _)
Advanced(one, calls, t, t_bound, n, u1, u2) ==
    Advance(t, one.y, t_bound, n, calls \o one.evals, u1, u2)

Advance(t, y, t_bound, n, calls, u1, u2) ==
    IF n = 0 THEN [y |-> y, evals |-> calls]
    ELSE CHOOSE r \in
             { Advanced(one, calls, t + (t_bound - t) \div n, t_bound,
                        n - 1, u1, u2) :
               one \in {rk_step(t, y, (t_bound - t) \div n, u1, u2)} } :
             TRUE

\* solve_ivp(fun, t_span, y0, method='RK45'): solution['y'][:, -1] and the
\* calls of fun that were made.
solve_ivp(t_span, y_init, u1, u2) ==
    Advance(t_span[1], y_init, t_span[2], SolverSteps, << >>, u1, u2)

dt == 100000                        \* SimulatorBase(dt=0.01)

\* Fault: the new state returned but not assigned to self.state.
step_unassigned(self_state, input) ==
    LET F  == rotor_thrust_model(SubSeq(input, 1, 2))
        u1 == F[1] + F[2]
        u2 == Mul(F[1] - F[2], arm_length)
        state_vector == to_state_vector(self_state)
        solution == solve_ivp(<<0, dt>>, state_vector, u1, u2)
    IN  [state |-> self_state, ret |-> from_state_vector(solution.y),
         y0 |-> state_vector, span |-> <<0, dt>>, evals |-> solution.evals]

\* Fault: the thrusts of all four rotors summed into u1.
step_all_rotors(self_state, input) ==
    LET F  == rotor_thrust_model(input)
        u1 == F[1] + F[2] + F[3] + F[4]
        u2 == Mul(F[1] - F[2], arm_length)
        state_vector == to_state_vector(self_state)
        solution == solve_ivp(<<0, dt>>, state_vector, u1, u2)
    IN  [state |-> from_state_vector(solution.y),
         ret |-> from_state_vector(solution.y),
         y0 |-> state_vector, span |-> <<0, dt>>, evals |-> solution.evals]

\* Fault: the torque taken as the thrust difference, without the arm.
step_no_arm(self_state, input) ==
    LET F  == rotor_thrust_model(SubSeq(input, 1, 2))
        u1 == F[1] + F[2]
        u2 == F[1] - F[2]
        state_vector == to_state_vector(self_state)
        solution == solve_ivp(<<0, dt>>, state_vector, u1, u2)
    IN  [state |-> from_state_vector(solution.y),
         ret |-> from_state_vector(solution.y),
         y0 |-> state_vector, span |-> <<0, dt>>, evals |-> solution.evals]

\* Fault: the torque with the rotors exchanged, (F2 - F1) * arm_length.
step_torque_reversed(self_state, input) ==
    LET F  == rotor_thrust_model(SubSeq(input, 1, 2))
        u1 == F[1] + F[2]
        u2 == Mul(F[2] - F[1], arm_length)
        state_vector == to_state_vector(self_state)
        solution == solve_ivp(<<0, dt>>, state_vector, u1, u2)
    IN  [state |-> from_state_vector(solution.y),
         ret |-> from_state_vector(solution.y),
         y0 |-> state_vector, span |-> <<0, dt>>, evals |-> solution.evals]

\* Fault: the span of integration grows with the ticks already taken, so
\* the result depends on the history of calls and not on the held state and
\* the command alone.
step_since_start(self_state, input) ==
    LET F  == rotor_thrust_model(SubSeq(input, 1, 2))
        u1 == F[1] + F[2]
        u2 == Mul(F[1] - F[2], arm_length)
        state_vector == to_state_vector(self_state)
        t_span   == <<0, dt * (Len(cmds) + 1)>>
        solution == solve_ivp(t_span, state_vector, u1, u2)
    IN  [state |-> from_state_vector(solution.y),
         ret |-> from_state_vector(solution.y),
         y0 |-> state_vector, span |-> t_span, evals |-> solution.evals]

\* PlanarQuadrotorDynamics.step(t, input) on the held state self_state:
\* the new held state, the value returned, and what the solver was given.
step(self_state, input) ==
    LET F  == rotor_thrust_model(SubSeq(input, 1, 2))
        F1 == F[1]
        F2 == F[2]
        u1 == F1 + F2
        u2 == Mul(F1 - F2, arm_length)
        state_vector == to_state_vector(self_state)
        t_span   == <<0, dt>>
        solution == solve_ivp(t_span, state_vector, u1, u2)
        new      == from_state_vector(solution.y)
    IN  [state |-> new, ret |-> new, y0 |-> state_vector,
         span |-> t_span, evals |-> solution.evals]

----------------------------------------------------------------------------
(* The simulation loop: controllers issue commands, step is called once    *)
(* per tick.                                                               *)

\* The number of ticks a run is followed for.
MaxSteps == 2

Rate(r) == r * RateScale

\* Rotor commands (four rates each).  The first three are the notebook's
\* controllers; the others vary the rates a controller may issue.
EmptyCommand == << Rate(0), Rate(0), Rate(0), Rate(0) >>

HoverCommand == << Rate(598), Rate(598), Rate(0), Rate(0) >>

ImbalancedCommand == << Rate(600), Rate(500), Rate(0), Rate(0) >>

ReverseImbalancedCommand == << Rate(500), Rate(600), Rate(0), Rate(0) >>

TrimRate == 593884264               \* 593.884264 rad/s: 2 k w^2 = mass g

TrimCommand == << TrimRate, TrimRate, Rate(0), Rate(0) >>

RearOnlyCommand == << Rate(0), Rate(0), Rate(700), Rate(300) >>

NegativeCommand == << Rate(-550), Rate(500), Rate(0), Rate(0) >>

Commands ==
    { EmptyCommand, HoverCommand, ImbalancedCommand,
      ReverseImbalancedCommand, TrimCommand, RearOnlyCommand,
      NegativeCommand }

Zero3 == <<0, 0, 0>>

Level == <<0, 0, 0, Scale>>         \* Rot3.from_yaw_pitch_roll(0, 0, 0)

\* A body pitched about y: the unit quaternion (0, 0.6, 0, 0.8).
Pitched == <<0, 6 * (Scale \div 10), 0, 8 * (Scale \div 10)>>

initial_state ==
    [position |-> Zero3, velocity |-> Zero3, orientation |-> Level,
     angular_velocity |-> Zero3]

\* The pitch rate the ImbalancedController's torque (4.02 rad/s2) builds up
\* in about 5,000 ticks, in rad/s.
SpinRate == 200

\* The notebook's initial_state and the variations it invites ("play with
\* this variable"): a start at rest away from the origin, a level start in
\* motion, and a pitched start drifting sideways, spinning fast about y
\* and turning slowly about x and z.
InitialStates ==
    { initial_state,
      [position |-> <<Scale, 0, 2 * Scale>>, velocity |-> Zero3,
       orientation |-> Level, angular_velocity |-> Zero3],
      [position |-> Zero3, velocity |-> <<Scale \div 2, Scale \div 4, Scale>>,
       orientation |-> Level, angular_velocity |-> Zero3],
      [position |-> Zero3, velocity |-> <<0, Scale \div 4, 0>>,
       orientation |-> Pitched,
       angular_velocity |-> <<Scale \div 4, SpinRate * Scale, -Scale \div 8>>] }

\* state: the state held by the dynamics (self.state); ret: the value the
\* last call of step returned; y0, span, evals: what the last call gave to
\* the solver and the calls of fun the solver made; cmds, hist: the
\* commands issued so far and the states returned for them (hist[1] is the
\* initial state); fin, fout: argument and result of a function applied on
\* its own.
Init ==
    /\ state \in InitialStates
    /\ ret = state
    /\ y0 = << >>
    /\ span = << >>
    /\ evals = << >>
    /\ cmds = << >>
    /\ hist = <<state>>
    /\ fin = << >>
    /\ fout = << >>

\* One tick: the controller's command goes to dynamics.step.
Step ==
    /\ Len(cmds) < MaxSteps
    /\ \E input \in Commands :
         \E r \in {step(state, input)} :
             /\ state' = r.state
             /\ ret' = r.ret
             /\ y0' = r.y0
             /\ span' = r.span
             /\ evals' = r.evals
             /\ cmds' = Append(cmds, input)
             /\ hist' = Append(hist, r.ret)
    /\ UNCHANGED <<fin, fout>>

Next == Step

Spec == Init /\ [][Next]_vars

----------------------------------------------------------------------------
(* rotor_thrust_model applied on its own to arrays of two rates.           *)

Rates ==
    { Rate(0), Rate(598), Rate(-598), Rate(600), Rate(-600), Rate(500),
      Rate(-1000), TrimRate, -TrimRate, 1, -31623 }

RateArrays == { <<a, b>> : a \in Rates, b \in Rates }

Idle ==
    /\ state = initial_state
    /\ ret = state
    /\ y0 = << >>
    /\ span = << >>
    /\ evals = << >>
    /\ cmds = << >>
    /\ hist = <<state>>

InitThrust == Idle /\ fin \in RateArrays /\ fout = << >>

ApplyThrust ==
    /\ fout = << >>
    /\ fout' = rotor_thrust_model(fin)
    /\ UNCHANGED <<state, ret, y0, span, evals, cmds, hist, fin>>

NextThrust == ApplyThrust

SpecThrust == InitThrust /\ [][NextThrust]_vars

----------------------------------------------------------------------------
(* dRot3 applied on its own to a quaternion and an angular velocity.       *)

Quaternions ==
    { Level, Pitched,
      <<Scale \div 2, Scale \div 2, Scale \div 2, Scale \div 2>>,
      <<Scale, 0, 0, 0>>,
      <<1234567, -2345678, 3456789, 8765432>>,
      <<-7000000, 1000000, 5000000, -5000000>>,
      <<0, 0, 0, 0>>,
      <<3 * Scale, -Scale, 2 * Scale, Scale \div 4>>,
      <<2 * Scale, -Scale, 3 * Scale, Scale>> }

AngularVelocities ==
    { Zero3, <<Scale, 0, 0>>, <<0, Scale, 0>>, <<0, 0, Scale>>,
      <<Scale, 2 * Scale, 3 * Scale>>, <<-1234567, 7654321, -2222222>>,
      <<0, Scale \div 2, 0>>, <<31415927, -27182818, 14142136>> }

InitRot == Idle /\ fin \in Quaternions \X AngularVelocities /\ fout = << >>

ApplyRot ==
    /\ fout = << >>
    /\ fout' = dRot3(fin[1], fin[2])
    /\ UNCHANGED <<state, ret, y0, span, evals, cmds, hist, fin>>

NextRot == ApplyRot

SpecRot == InitRot /\ [][NextRot]_vars

----------------------------------------------------------------------------
(* Properties of step, checked under Spec.                                 *)

Last(s) == s[Len(s)]

\* The state that was held when the last call of step began.
HeldBefore == hist[Len(hist) - 1]

\* The thrusts of the first two entries of a command and their difference.
F1of(c) == rotor_thrust(c[1])

F2of(c) == rotor_thrust(c[2])

Asymmetry(c) == F1of(c) - F2of(c)

\* C1: every call of step returns the state the component holds after the
\* call, and the next call integrates from exactly that state: the initial
\* value handed to the solver is the vector of the state returned by the
\* call before (of the initial state, for the first call).
ReturnsHeldState ==
    Len(cmds) > 0 =>
        /\ ret = state
        /\ Last(hist) = ret
        /\ y0 = to_state_vector(HeldBefore)

ReturnsHeldStateWitness ==
    /\ Len(cmds) = 2
    /\ ret = state
    /\ hist[2] # hist[1]
    /\ ret # hist[2]
    /\ y0 = to_state_vector(hist[2])

\* Rates for the two rear rotors, which the planar model leaves unused.
Tails == { <<Rate(0), Rate(0)>>, <<Rate(-400), TrimRate>> }

WithTail(c, tail) == <<c[1], c[2], tail[1], tail[2]>>

\* C2: step consumes only the first two entries of the command: from the
\* same held state, every command that agrees with the one issued on
\* entries 1 and 2 gives the same next state, whatever entries 3 and 4.
OnlyFirstTwoRatesConsumed ==
    Len(cmds) > 0 =>
        \A tail \in Tails :
            WithTail(Last(cmds), tail) # Last(cmds) =>
                step(HeldBefore, WithTail(Last(cmds), tail)).state = state

OnlyFirstTwoRatesConsumedWitness ==
    /\ Len(cmds) > 0
    /\ Last(cmds) = RearOnlyCommand
    /\ state # HeldBefore
    /\ step(HeldBefore, EmptyCommand).state = state
    /\ step(HeldBefore, ImbalancedCommand).state # state

\* C4: the generalized inputs of a call are the total thrust u1 = F1 + F2
\* and the net torque u2 = (F1 - F2) * arm_length, F1 and F2 the thrusts of
\* the first and the second command entry: these are the values the
\* derivative is evaluated with.
GeneralizedInputs ==
    Len(cmds) > 0 =>
        /\ Len(evals) > 0
        /\ \A i \in 1..Len(evals) :
              /\ evals[i].u1 = F1of(Last(cmds)) + F2of(Last(cmds))
              /\ evals[i].u2 = Mul(Asymmetry(Last(cmds)), arm_length)

GeneralizedInputsWitness ==
    /\ Len(cmds) > 0
    /\ Last(cmds) = NegativeCommand
    /\ F1of(Last(cmds)) > F2of(Last(cmds))
    /\ F2of(Last(cmds)) > 0
    /\ evals[1].u1 > F1of(Last(cmds))
    /\ evals[1].u2 > 0
    /\ evals[1].u2 < Asymmetry(Last(cmds))

\* C5: every call of step poses a fresh initial-value problem over [0, dt]
\* from the held state and holds the command constant inside it: all
\* evaluations of the derivative in one call fall in [0, dt] and use the
\* same u1 and u2, those of the command passed to this call.
ZeroOrderHold ==
    Len(cmds) > 0 =>
        /\ span = <<0, dt>>
        /\ y0 = to_state_vector(HeldBefore)
        /\ Len(evals) > 1
        /\ \A i \in 1..Len(evals) :
              /\ evals[i].t >= 0
              /\ evals[i].t <= dt
              /\ evals[i].u1 = evals[1].u1
              /\ evals[i].u2 = evals[1].u2
        /\ evals[1].t = 0
        /\ evals[1].u1 = F1of(Last(cmds)) + F2of(Last(cmds))

ZeroOrderHoldWitness ==
    /\ Len(cmds) = 2
    /\ cmds[1] = ImbalancedCommand
    /\ cmds[2] = EmptyCommand
    /\ span = <<0, dt>>
    /\ Last(evals).t = dt
    /\ Last(evals).u1 = 0
    /\ Last(evals).u2 = 0
    /\ hist[2].angular_velocity = state.angular_velocity
    /\ state.angular_velocity # Zero3

----------------------------------------------------------------------------
(* The testable scenarios: free fall, hover, torque asymmetry.             *)

AtRest(s) == s.velocity = Zero3 /\ s.angular_velocity = Zero3

ZeroRates == \A i \in 1..Len(cmds) : cmds[i] = EmptyCommand

\* 1e-6, the absolute tolerance solve_ivp integrates with by default.
Tolerance == Scale \div 10 ^ 6

Elapsed == Len(cmds) * dt

\* C7: free fall from rest, level, with zero rotor rates in every step:
\* after n steps (t = n dt) velocity.z is -g t and position.z is its
\* initial value less g t^2 / 2, both within the integration tolerance,
\* and position.x and velocity.x are the initial ones.
FreeFallTranslation ==
    (Len(cmds) > 0 /\ AtRest(hist[1]) /\ hist[1].orientation = Level
     /\ ZeroRates) =>
        /\ Abs(state.velocity[3] + Mul(g, Elapsed)) <= Tolerance
        /\ Abs(state.position[3] - hist[1].position[3]
               + Ratio(Mul(Mul(g, Elapsed), Elapsed), 1, 2)) <= Tolerance
        /\ state.position[1] = hist[1].position[1]
        /\ state.velocity[1] = hist[1].velocity[1]

FreeFallTranslationWitness ==
    /\ Len(cmds) = 2
    /\ AtRest(hist[1])
    /\ hist[1].orientation = Level
    /\ ZeroRates
    /\ hist[1].position[3] > 0
    /\ hist[1].position[1] > 0
    /\ state.velocity[3] < hist[2].velocity[3]
    /\ hist[2].velocity[3] < 0
    /\ state.position[3] < hist[2].position[3]

\* C8: free fall from a level start without angular velocity, with zero
\* rotor rates in every step: orientation and angular velocity are the
\* initial ones after every step.
FreeFallRotation ==
    (hist[1].angular_velocity = Zero3 /\ hist[1].orientation = Level
     /\ ZeroRates) =>
        \A i \in 1..Len(hist) :
            /\ hist[i].orientation = hist[1].orientation
            /\ hist[i].angular_velocity = hist[1].angular_velocity

FreeFallRotationWitness ==
    /\ Len(cmds) = 2
    /\ hist[1].angular_velocity = Zero3
    /\ hist[1].orientation = Level
    /\ ZeroRates
    /\ hist[1].velocity # Zero3
    /\ state.velocity # hist[1].velocity
    /\ state.position # hist[1].position
    /\ state.orientation = Level
    /\ state.angular_velocity = Zero3

\* A command with symmetric thrusts that carry the weight.
Trimmed(c) == Asymmetry(c) = 0 /\ F1of(c) + F2of(c) = Mul(mass, g)

\* C9: hover: from a level state at rest, while every command gives
\* F1 = F2 and u1 = mass g, the state is a fixed point of step: velocity
\* and angular velocity stay 0, position and orientation unchanged.
HoverEquilibrium ==
    (AtRest(hist[1]) /\ hist[1].orientation = Level
     /\ \A i \in 1..Len(cmds) : Trimmed(cmds[i])) =>
        \A i \in 1..Len(hist) : hist[i] = hist[1]

HoverEquilibriumWitness ==
    /\ Len(cmds) = 2
    /\ AtRest(hist[1])
    /\ hist[1].orientation = Level
    /\ hist[1].position # Zero3
    /\ Trimmed(cmds[1])
    /\ Trimmed(cmds[2])
    /\ evals[1].u1 = Mul(mass, g)
    /\ evals[1].u1 > 0
    /\ state = hist[1]

\* C10: torque asymmetry: from zero angular velocity, while every command
\* has F1 # F2 with the same sign of F1 - F2, the angular velocity about y
\* is non-zero after the first step, has the sign of (F1 - F2) arm_length,
\* and grows in magnitude from each step to the next.
TorqueAsymmetry ==
    (hist[1].angular_velocity = Zero3
     /\ \A i \in 1..Len(cmds) :
            /\ Asymmetry(cmds[i]) # 0
            /\ Sgn(Asymmetry(cmds[i])) = Sgn(Asymmetry(cmds[1]))) =>
        \A i \in 1..Len(cmds) :
            /\ hist[i + 1].angular_velocity[2] # 0
            /\ Sgn(hist[i + 1].angular_velocity[2])
                   = Sgn(Mul(Asymmetry(cmds[i]), arm_length))
            /\ Abs(hist[i + 1].angular_velocity[2])
                   > Abs(hist[i].angular_velocity[2])

TorqueAsymmetryWitness ==
    /\ Len(cmds) = 2
    /\ hist[1].angular_velocity = Zero3
    /\ cmds[1] # cmds[2]
    /\ Asymmetry(cmds[1]) > 0
    /\ Asymmetry(cmds[2]) > 0
    /\ hist[2].angular_velocity[2] > 0
    /\ state.angular_velocity[2] > hist[2].angular_velocity[2]

----------------------------------------------------------------------------
(* Properties of rotor_thrust_model, checked under SpecThrust.             *)

Negated(rotor_rates) == [i \in 1..Len(rotor_rates) |-> -rotor_rates[i]]

----------------------------------------------------------------------------
(* Properties of dRot3, checked under SpecRot.                             *)

\* Quaternion product p q, both in x, y, z, w order.
QuatMul(p, q) ==
    << Mul(p[4], q[1]) + Mul(p[1], q[4]) + Mul(p[2], q[3]) - Mul(p[3], q[2]),
       Mul(p[4], q[2]) - Mul(p[1], q[3]) + Mul(p[2], q[4]) + Mul(p[3], q[1]),
       Mul(p[4], q[3]) + Mul(p[1], q[2]) - Mul(p[2], q[1]) + Mul(p[3], q[4]),
       Mul(p[4], q[4]) - Mul(p[1], q[1]) - Mul(p[2], q[2]) - Mul(p[3], q[3]) >>

\* C6: dRot3 returns dq/dt = 1/2 Omega(omega) q: for the quaternion q in
\* x, y, z, w order and the body-frame angular velocity omega, each
\* component of (G^T omega) / 2 is half the same component of the product
\* of q with the pure quaternion (omega, 0).
QuaternionRate ==
    fout # << >> =>
        /\ Len(fout) = 4
        /\ \A i \in 1..4 :
              fout[i] = Ratio(QuatMul(fin[1], fin[2] \o <<0>>)[i], 1, 2)

QuaternionRateWitness ==
    /\ fout # << >>
    /\ \A i \in 1..4 : fin[1][i] # 0 /\ fout[i] # 0
    /\ \A i \in 1..3 : fin[2][i] # 0
    /\ fout[1] # fout[2]
    /\ fout[2] # fout[3]

----------------------------------------------------------------------------
(* The norm of the orientation quaternion, checked under Spec.             *)

\* |q|^2 of a quaternion.
NormSq(q) ==
    Mul(q[1], q[1]) + Mul(q[2], q[2]) + Mul(q[3], q[3]) + Mul(q[4], q[4])

\* | |q| - 1 | <= 1e-6, as a bound on |q|^2: (1 +- 1e-6)^2 is 1 +- 2e-6,
\* widened by the rounding of the four products of NormSq.
NormSlack == 2 * Tolerance + 2

UnitWithinTolerance(q) == Abs(NormSq(q) - Scale) <= NormSlack

\* C11: starting from a unit quaternion, after any sequence of steps under
\* any commands the norm of the held orientation is within 1e-6 of 1.
OrientationUnitNorm ==
    NormSq(hist[1].orientation) = Scale =>
        \A i \in 1..Len(hist) : UnitWithinTolerance(hist[i].orientation)

----------------------------------------------------------------------------
(* Determinism of step, checked under Spec.                                *)

----------------------------------------------------------------------------
(* Construction of the parameters: Params(mass=..., inertia=...).          *)

\* The dataclass-generated Params.__init__: every field is stored as given
\* (the others at their defaults); the class has no __post_init__ and
\* nothing in it raises.
Params(mass_given, inertia_given) ==
    [raised |-> FALSE,
     value  |-> [mass |-> mass_given, inertia |-> inertia_given,
                 rotor_diameter |-> rotor_diameter,
                 static_thrust_coefficient |-> static_thrust_coefficient,
                 static_torque_coefficient |-> static_torque_coefficient,
                 arm_length |-> arm_length, g |-> g, rho |-> rho]]

\* Masses and inertias a caller may pass, non-positive ones included.
ParamValues ==
    { -2 * Scale, -Scale, -mass, -inertia, -1, 0, 1, inertia, Scale \div 2,
      Scale, mass, 2 * Scale }

InitParams == Idle /\ fin \in ParamValues \X ParamValues /\ fout = << >>

ConstructParams ==
    /\ fout = << >>
    /\ fout' = <<Params(fin[1], fin[2])>>
    /\ UNCHANGED <<state, ret, y0, span, evals, cmds, hist, fin>>

NextParams == ConstructParams

SpecParams == InitParams /\ [][NextParams]_vars

\* C13: constructing the parameters with a non-positive mass or inertia
\* fails at construction.
ConfigurationError ==
    (fout # << >> /\ (fin[1] <= 0 \/ fin[2] <= 0)) => fout[1].raised

----------------------------------------------------------------------------
(* step when the integration may fail.  solve_ivp reports a failed         *)
(* integration in the solution it returns (success False, y holding the    *)
(* points reached so far); which calls fail is up to the library.          *)

\* The solution objects solve_ivp may return: the integration completed,
\* or it failed before the first internal step was accepted (y is y0
\* alone), or it failed after one.
Succeeded(solution) ==
    [success |-> TRUE, y |-> solution.y, evals |-> solution.evals]

Failed(solution) ==
    [success |-> FALSE, y |-> solution.y, evals |-> solution.evals]

solve_ivp_returns(t_span, y_init, u1, u2) ==
    { Succeeded(solve_ivp(t_span, y_init, u1, u2)),
      Failed([y |-> y_init, evals |-> << >>]),
      Failed(rk_step(t_span[1], y_init,
                     (t_span[2] - t_span[1]) \div SolverSteps, u1, u2)) }

\* Lines 195-196 of step on a returned solution: the last column is decoded,
\* assigned to self.state and returned; success is not read and nothing
\* is raised.
Stored(solution, state_vector, t_span) ==
    [state |-> from_state_vector(solution.y),
     ret |-> from_state_vector(solution.y),
     y0 |-> state_vector, span |-> t_span, evals |-> solution.evals,
     success |-> solution.success, raised |-> FALSE]

step_returns(self_state, u1, u2) ==
    { Stored(solution, to_state_vector(self_state), <<0, dt>>) :
      solution \in solve_ivp_returns(<<0, dt>>, to_state_vector(self_state),
                                     u1, u2) }

\* One tick: fin records what the solver reported, fout whether step raised.
StepSolved ==
    /\ Len(cmds) < MaxSteps
    /\ \E input \in Commands :
       \E F \in {rotor_thrust_model(SubSeq(input, 1, 2))} :
       \E r \in step_returns(state, F[1] + F[2], Mul(F[1] - F[2], arm_length)) :
          /\ state' = r.state
          /\ ret' = r.ret
          /\ y0' = r.y0
          /\ span' = r.span
          /\ evals' = r.evals
          /\ cmds' = Append(cmds, input)
          /\ hist' = Append(hist, r.ret)
          /\ fin' = <<r.success>>
          /\ fout' = <<r.raised>>

InitSolved == Init

NextSolved == StepSolved

SpecSolved == InitSolved /\ [][NextSolved]_vars

\* C14: when the solver reports failure, step raises and the held state
\* stays what it was before the call; a failed result is neither stored nor
\* returned.
DivergenceSurfaced ==
    (Len(cmds) > 0 /\ ~fin[1]) => (fout[1] /\ state = HeldBefore)

----------------------------------------------------------------------------
(* Commands with a negative rate, checked under Spec.                      *)

\* A command with its negative rates replaced by zero.
ClampedToZero(input) ==
    Array([i \in 1..Len(input) |-> IF input[i] < 0 THEN 0 ELSE input[i]])

NegativeRate(input) == \E i \in 1..2 : input[i] < 0

\* C15: a command whose first or second rate is negative is either clamped
\* to zero (the step is the step of the clamped command) or rejected (the
\* held state is left as it was); it never acts with the thrust of the
\* positive rate.
InvalidCommandPolicy ==
    (Len(cmds) > 0 /\ NegativeRate(Last(cmds))) =>
        \/ state = step(HeldBefore, ClampedToZero(Last(cmds))).state
        \/ state = HeldBefore

----------------------------------------------------------------------------
(* step on commands of any length.                                         *)

\* The longest command issued.
MaxLength == 5

\* input.rotor_rates[:2]: the first two entries, or fewer when the array
\* is shorter.
FirstTwo(rotor_rates) ==
    SubSeq(rotor_rates, 1, IF Len(rotor_rates) < 2 THEN Len(rotor_rates) ELSE 2)

\* F1, F2 = rotor_thrust_model(input.rotor_rates[:2]) unpacks exactly two
\* values and raises ValueError otherwise, before anything is assigned;
\* with two values step goes on as for any command.
step_call(self_state, input) ==
    IF Len(FirstTwo(input)) # 2
    THEN [raised |-> TRUE]
    ELSE [raised |-> FALSE, result |-> step(self_state, input)]

\* The commands of the notebook's controllers cut or padded to n entries.
Resized(c, n) == Array([i \in 1..n |-> IF i <= Len(c) THEN c[i] ELSE Rate(100)])

CommandsOfAnyLength ==
    { Resized(c, n) : c \in {EmptyCommand, HoverCommand, ImbalancedCommand},
                      n \in 0..MaxLength }

\* One tick: fin records the state held when step was called, fout whether
\* step raised; a call that raises returns nothing.
StepAnyLength ==
    /\ Len(cmds) < MaxSteps
    /\ \E input \in CommandsOfAnyLength :
       \E r \in {step_call(state, input)} :
          /\ IF r.raised
             THEN UNCHANGED <<state, ret, y0, span, evals, hist>>
             ELSE /\ state' = r.result.state
                  /\ ret' = r.result.ret
                  /\ y0' = r.result.y0
                  /\ span' = r.result.span
                  /\ evals' = r.result.evals
                  /\ hist' = Append(hist, r.result.ret)
          /\ cmds' = Append(cmds, input)
          /\ fin' = <<state>>
          /\ fout' = <<r.raised>>

InitAnyLength == Init

NextAnyLength == StepAnyLength

SpecAnyLength == InitAnyLength /\ [][NextAnyLength]_vars

\* C16: a command whose length is not 4 makes step fail before the held
\* state changes, whatever the wrong length is.
DimensionError ==
    (Len(cmds) > 0 /\ Len(Last(cmds)) # 4) => (fout[1] /\ state = fin[1])

----------------------------------------------------------------------------
(* The planar reduction, checked under Spec.                               *)

\* A derivative with no acceleration along y and none about x and z.
InPlane(derivative) ==
    /\ derivative.velocity[2] = 0
    /\ derivative.angular_velocity[1] = 0
    /\ derivative.angular_velocity[3] = 0

\* The derivative of state s under the generalized inputs of command c.
DerivativeUnder(s, c) ==
    state_derivative(s, F1of(c) + F2of(c), Mul(Asymmetry(c), arm_length))

\* C17: the derivative at the start and at the end of every step has zero
\* linear acceleration along y and zero angular acceleration about x and z,
\* and over any number of steps velocity.y, angular_velocity.x and
\* angular_velocity.z keep the values of the initial state.
PlanarConstraint ==
    /\ \A i \in 1..Len(cmds) :
          /\ InPlane(DerivativeUnder(hist[i], cmds[i]))
          /\ InPlane(DerivativeUnder(hist[i + 1], cmds[i]))
    /\ \A i \in 1..Len(hist) :
          /\ hist[i].velocity[2] = hist[1].velocity[2]
          /\ hist[i].angular_velocity[1] = hist[1].angular_velocity[1]
          /\ hist[i].angular_velocity[3] = hist[1].angular_velocity[3]

\* Two steps with thrust and torque applied, from a state that moves along
\* y and turns about x and z.
PlanarConstraintWitness ==
    /\ Len(cmds) = 2
    /\ \A i \in 1..2 : F1of(cmds[i]) + F2of(cmds[i]) > 0 /\ Asymmetry(cmds[i]) # 0
    /\ state.velocity[2] # 0
    /\ state.angular_velocity[1] # 0
    /\ state.angular_velocity[3] # 0
    /\ state.velocity # hist[1].velocity
    /\ state.angular_velocity # hist[1].angular_velocity

----------------------------------------------------------------------------
(* step on objects with identity.  A heap holds the QuadrotorState objects *)
(* built so far (an object's identity is its index); self.state and the    *)
(* values step returns are references into it.                             *)

\* Fault: the fields of the held object overwritten with the new values,
\* and the held object returned.
step_in_place(heap, self_ref, input) ==
    [heap |-> [heap EXCEPT ![self_ref] = step(heap[self_ref], input).state],
     self_ref |-> self_ref,
     ret_ref  |-> self_ref]

\* step with references: the state read through self.state is integrated,
\* QuadrotorState.from_state_vector builds a new object, self.state is bound
\* to it and the same reference is returned.  No object already on the heap
\* is written.
step_on_heap(heap, self_ref, input) ==
    [heap |-> Append(heap, step(heap[self_ref], input).state),
     self_ref |-> Len(heap) + 1,
     ret_ref  |-> Len(heap) + 1]

\* fin is the heap; fout lists the references handed out, the initial
\* state's first, and its last entry is the reference self.state holds.
InitHeap ==
    /\ state \in InitialStates
    /\ ret = state
    /\ y0 = << >>
    /\ span = << >>
    /\ evals = << >>
    /\ cmds = << >>
    /\ hist = <<state>>
    /\ fin = <<state>>
    /\ fout = <<1>>

StepHeap ==
    /\ Len(cmds) < MaxSteps
    /\ \E input \in Commands :
       \E r \in {step(state, input)} :
       \E o \in {step_on_heap(fin, Last(fout), input)} :
          /\ fin' = o.heap
          /\ fout' = Append(fout, o.ret_ref)
          /\ state' = o.heap[o.self_ref]
          /\ ret' = o.heap[o.ret_ref]
          /\ y0' = r.y0
          /\ span' = r.span
          /\ evals' = r.evals
          /\ cmds' = Append(cmds, input)
          /\ hist' = Append(hist, r.ret)

NextHeap == StepHeap

SpecHeap == InitHeap /\ [][NextHeap]_vars

\* C18: every step binds the held state to an object built by that step,
\* distinct from every object handed out before, and every state returned
\* earlier, the initial state included, still has the field values it had
\* when it was handed out.
ValueSemantics ==
    /\ Len(fout) = Len(hist)
    /\ \A i \in 1..Len(fout) : fin[fout[i]] = hist[i]
    /\ \A i, j \in 1..Len(fout) : i # j => fout[i] # fout[j]

\* Two steps that changed the state: three objects with different values.
ValueSemanticsWitness ==
    /\ Len(fout) = 3
    /\ fin[fout[1]] # fin[fout[2]]
    /\ fin[fout[2]] # fin[fout[3]]
    /\ state = fin[fout[3]]

----------------------------------------------------------------------------
(* Orthogonality of the quaternion rate, checked under SpecRot.            *)

\* The dot product q . r of two quaternions.
QuatDot(q, r) ==
    Mul(q[1], r[1]) + Mul(q[2], r[2]) + Mul(q[3], r[3]) + Mul(q[4], r[4])

\* Vectors whose components are whole numbers: every product and every
\* halving dRot3 and the dot product make of them is exact.
Whole(v) == \A i \in 1..Len(v) : v[i] % Scale = 0

\* What the roundings of dRot3 and of the dot product can leave of q . r:
\* each component of r is off by less than 5/4 of a unit in the last place,
\* weighted by the component of q it multiplies, and each of the four
\* products of the dot product by half a unit.
RoundingResidue(q) ==
    2 + 2 * ((Abs(q[1]) + Abs(q[2]) + Abs(q[3]) + Abs(q[4])) \div Scale + 1)

\* C19 as stated: for every quaternion q and angular velocity omega the dot
\* product q . ((G^T omega) / 2) is exactly 0, and for omega = 0 the rate
\* is the zero vector.
RateOrthogonalExactly ==
    fout # << >> =>
        /\ QuatDot(fin[1], fout) = 0
        /\ (fin[2] = Zero3 => fout = <<0, 0, 0, 0>>)

\* C19, amended: the dot product q . ((G^T omega) / 2) is 0 up to the
\* rounding of the products, and exactly 0 where the products are exact;
\* for omega = 0 the rate is the zero vector.
RateOrthogonal ==
    fout # << >> =>
        /\ Abs(QuatDot(fin[1], fout)) <= RoundingResidue(fin[1])
        /\ (Whole(fin[1]) /\ Whole(fin[2]) => QuatDot(fin[1], fout) = 0)
        /\ (fin[2] = Zero3 => fout = <<0, 0, 0, 0>>)

\* A rate with no zero component, computed with exact products from a
\* quaternion with no zero component.
RateOrthogonalWitness ==
    /\ fout # << >>
    /\ Whole(fin[1])
    /\ Whole(fin[2])
    /\ \A i \in 1..4 : fin[1][i] # 0 /\ fout[i] # 0
    /\ \A i \in 1..3 : fin[2][i] # 0

====
